---- MODULE Spec2Model ----
(***************************************************************************)
(* The question-answering pipeline of the help-desk application            *)
(* (gtompel/support): the findAnswer closure of main(), the background     *)
(* task it spawns per search, the fyne.Do queue run by the foreground      *)
(* thread, and the favorites callbacks of the result cards.                *)
(*                                                                         *)
(* Strings that the code trims, folds or formats are sequences of          *)
(* one-character strings; answers are opaque strings.  Relevance scores    *)
(* are in hundredths (0.3 is 30).                                          *)
(***************************************************************************)
EXTENDS Integers, Sequences, FiniteSets, TLC

VARIABLES
    faqTable,      \* rows of table faq, in rowid order
    faqEntries,    \* main's faqEntries: the list loaded at startup
    index,         \* the opened bleve index: a set of documents
    historyTable,  \* rows of table history, in insertion order
    history,       \* main's history variable (shared with the tasks)
    favorites,     \* rows of table favorites, in insertion order
    favSeq,        \* sqlite_sequence of favorites (AUTOINCREMENT)
    favView,       \* cards of the favorites tab, as last loaded
    tasks,         \* the locals of the tasks spawned so far, by submission,
                   \* each with the trace of what it did
    uiQueue,       \* functions handed to fyne.Do, not yet run
    results,       \* resultsContainer.Objects
    progress,      \* progress bar visible
    dialog,        \* the dialog shown last
    favUndo,       \* observer: the favorites rows before the save shown last
    running,       \* the window is open: main is in w.ShowAndRun()
    faqBleve,      \* the directory faq.bleve on disk
    status,        \* the text of ollamaStatus
    clock,         \* CURRENT_TIMESTAMP, in seconds
    runs,          \* how often the program was started
    faqSeq,        \* the highest id the faq table handed out
    searchHistory  \* src/main.go: the questions submitted, kept in memory

vars == <<faqTable, faqEntries, index, historyTable, history, favorites,
          favSeq, favView, tasks, uiQueue, results, progress, dialog, favUndo,
          running, faqBleve, status, clock, runs, faqSeq,
          searchHistory>>

-----------------------------------------------------------------------------
(* Bounds of the model *)

\* searches submitted in one run
MaxTasks == 1
\* searches submitted in one run in which searches overlap
MaxOverlap == 2
\* highest id the favorites table hands out
MaxFavSeq == 2
\* highest id the faq table hands out
MaxFaqSeq == 13
\* how often the program is started
MaxRuns == 2

(* Program constants *)

\* searchResult.Hits[0].Score > 0.3, in hundredths
Threshold == 30
\* ... ORDER BY date DESC LIMIT 10
HistoryLimit == 10

-----------------------------------------------------------------------------
(* Strings *)

White == {" ", "\n"}

\* unicode.SimpleFold on the characters used here
Lower(c) == CASE c = "V" -> "v" [] c = "X" -> "x" [] OTHER -> c

RECURSIVE TrimLeft(_)
TrimLeft(s) ==
    IF s = <<>> THEN s
    ELSE IF Head(s) \in White THEN TrimLeft(Tail(s)) ELSE s

RECURSIVE TrimRight(_)
TrimRight(s) ==
    IF s = <<>> THEN s
    ELSE IF s[Len(s)] \in White THEN TrimRight(SubSeq(s, 1, Len(s) - 1)) ELSE s

\* strings.TrimSpace
TrimSpace(s) == TrimRight(TrimLeft(s))

\* strings.EqualFold
EqualFold(s, t) ==
    /\ Len(s) = Len(t)
    /\ \A i \in 1..Len(s) : Lower(s[i]) = Lower(t[i])

Digits == <<"0", "1", "2", "3", "4", "5", "6", "7", "8", "9">>

\* fmt.Sprintf("%d", n) for n >= 0
RECURSIVE FmtD(_)
FmtD(n) ==
    IF n < 10 THEN <<Digits[n + 1]>>
    ELSE FmtD(n \div 10) \o <<Digits[(n % 10) + 1]>>

-----------------------------------------------------------------------------
(* The state at startup *)

\* the faq table when the program starts
FaqAtStart ==
    << [ID |-> 1,  Question |-> <<" ", "v">>, Answer |-> "a1"],
       [ID |-> 12, Question |-> <<"V">>,      Answer |-> "a2"] >>

\* the history table when the program starts
HistoryAtStart == <<>>

\* no faq.bleve directory on disk
NoIndex == [exists |-> FALSE, docs |-> {}]

\* an index a former run left on disk: built when the faq table held
\* entries 1 and 2; entry 2 was deleted from the table since
StaleIndex ==
    [exists |-> TRUE,
     docs |-> { [ID |-> <<"1">>, Question |-> <<" ", "v">>, Answer |-> "a1"],
                [ID |-> <<"2">>, Question |-> <<"x", "v">>, Answer |-> "old"] }]

\* what may be at faq.bleve when the program starts
DiskAtStart == {NoIndex, StaleIndex}

\* what a former run may have left in favorites
FavoritesAtStart ==
    { <<>> }

\* loadFAQEntries
LoadFAQEntries(table) == table

\* the index filled from the entries whatever is on disk
CreateBleveIndexRebuilt(disk, entries) ==
    { [ID |-> FmtD(entries[i].ID),
       Question |-> entries[i].Question,
       Answer |-> entries[i].Answer] : i \in 1..Len(entries) }

\* createBleveIndex: create and fill, or open what is on disk
CreateBleveIndex(disk, entries) ==
    IF ~disk.exists
    THEN { [ID |-> FmtD(entries[i].ID),
            Question |-> entries[i].Question,
            Answer |-> entries[i].Answer] : i \in 1..Len(entries) }
    ELSE disk.docs

\* ORDER BY <stamp> DESC over the rows `left` of a table: every order in
\* which no row comes before a row with a later stamp; the order of rows of
\* the same second is up to the database
RECURSIVE ByStampDesc(_, _, _)
ByStampDesc(table, stamp, left) ==
    IF left = {} THEN { <<>> }
    ELSE UNION { { <<table[i]>> \o o :
                     o \in ByStampDesc(table, stamp, left \ {i}) } :
                 i \in { j \in left : \A k \in left : stamp[k] <= stamp[j] } }

\* the cap taken from the other end
LimitOldest(rows, n) ==
    IF Len(rows) > n THEN SubSeq(rows, Len(rows) - n + 1, Len(rows)) ELSE rows

\* LIMIT n
Limit(rows, n) == IF Len(rows) > n THEN SubSeq(rows, 1, n) ELSE rows

\* loadHistory: what SELECT ... ORDER BY date DESC LIMIT 10 may return
LoadHistory(table) ==
    { Limit(o, HistoryLimit) :
        o \in ByStampDesc(table, [i \in 1..Len(table) |-> table[i].date],
                          1..Len(table)) }

\* loadFavorites: the cards the favorites tab may hold, ORDER BY created_at
\* DESC
LoadFavorites(table) ==
    { [i \in 1..Len(o) |-> [question |-> o[i].question, answer |-> o[i].answer]] :
        o \in ByStampDesc(table, [i \in 1..Len(table) |-> table[i].created_at],
                          1..Len(table)) }

\* the second of the newest row of the two tables the program stamps
LastStamp(hist, favs) ==
    LET h == IF hist = <<>> THEN 0 ELSE hist[Len(hist)].date
        f == IF favs = <<>> THEN 0 ELSE favs[Len(favs)].created_at
    IN  IF h > f THEN h ELSE f

\* no save of a favorite observed yet
NoUndo == [stage |-> "none", question |-> <<>>, answer |-> "", before |-> <<>>]

\* main up to w.ShowAndRun(), over what it may find on disk and in the
\* history table; a history that cannot be loaded is shown empty
Startup(disks, histories) ==
    /\ faqTable = FaqAtStart
    /\ faqEntries = LoadFAQEntries(faqTable)
    /\ \E d \in disks :
          index = CreateBleveIndex(d, faqEntries)
    /\ faqBleve = [exists |-> TRUE, docs |-> index]
    /\ historyTable \in histories
    /\ history \in LoadHistory(historyTable) \cup { <<>> }
    /\ favorites \in FavoritesAtStart
    /\ favSeq = Len(favorites)
    /\ favView \in LoadFavorites(favorites) \cup { <<>> }
    /\ tasks = <<>>
    /\ uiQueue = <<>>
    /\ results = <<>>
    /\ progress = FALSE
    /\ dialog = "none"
    /\ favUndo = NoUndo
    /\ running = TRUE
    /\ status = "checking"
    /\ clock = LastStamp(historyTable, favorites)
    /\ runs = 1
    /\ faqSeq = faqTable[Len(faqTable)].ID
    /\ searchHistory = <<>>

Init == Startup(DiskAtStart, {HistoryAtStart})

-----------------------------------------------------------------------------
(* findAnswer: the foreground part *)

\* what the user may type into the input field
QInputs == { <<>>, <<" ", "\n">>, <<"V", " ">>, <<"x">> }

\* the test without the trim
IsBlankUntrimmed(q) == q = <<>>

\* strings.TrimSpace(question) == ""
IsBlank(q) == TrimSpace(q) = <<>>

\* the goroutine's locals when it starts
NewTask(q) ==
    [question |-> q, pc |-> "scan", found |-> FALSE, answer |-> "",
     search |-> [res |-> "none", hits |-> <<>>],
     gen |-> [res |-> "none", text |-> ""],
     saveErr |-> FALSE, loaded |-> <<>>, loadErr |-> FALSE,
     failed |-> FALSE,
     trace |-> <<>>, order |-> 0]

\* fyne.Do(f): f joins the queue of the foreground thread
Do(queue, f) == Append(queue, f)

FindAnswer(q, max) ==
    /\ running
    /\ IF IsBlank(q)
       THEN /\ dialog' = "warning"
            /\ UNCHANGED <<faqTable, faqEntries, index, historyTable, history,
                           favorites, favSeq, favView, tasks, uiQueue,
                           results, progress, favUndo, running, faqBleve, status,
                           clock, runs, faqSeq,
                           searchHistory>>
       ELSE /\ Len(tasks) < max
            /\ uiQueue' = Do(uiQueue, [kind |-> "show", task |-> 0])
            /\ tasks' = Append(tasks, NewTask(q))
            /\ UNCHANGED <<faqTable, faqEntries, index, historyTable, history,
                           favorites, favSeq, favView, results, progress,
                           dialog, favUndo, running, faqBleve, status, clock, runs, faqSeq,
                           searchHistory>>

-----------------------------------------------------------------------------
(* findAnswer: the background task *)

Step(t, pc) == t \in 1..Len(tasks) /\ tasks[t].pc = pc

\* the task's locals after a step that did `event`
Moved(t, pc, event) ==
    [tasks[t] EXCEPT !.pc = pc, !.trace = Append(@, event)]

\* the exact-match loop: the first entry whose question matches, 0 if none
RECURSIVE ScanFrom(_, _, _)
ScanFrom(entries, q, i) ==
    IF i > Len(entries) THEN 0
    ELSE IF EqualFold(TrimSpace(entries[i].Question), TrimSpace(q)) THEN i
    ELSE ScanFrom(entries, q, i + 1)

\* the loop without its break: the last matching entry wins
ExactMatchNoBreak(entries, q) ==
    LET m == { i \in 1..Len(entries) :
                 EqualFold(TrimSpace(entries[i].Question), TrimSpace(q)) }
    IN  IF m = {} THEN 0 ELSE CHOOSE i \in m : \A j \in m : j <= i

ExactMatch(entries, q) == ScanFrom(entries, q, 1)

\* the index queried whatever the scan found
AfterScanAlwaysSearch(found) == "search"

\* if found { ... } else { index.Search ... }
AfterScan(found) == IF found THEN "save" ELSE "search"

Scan(t) ==
    /\ Step(t, "scan")
    /\ LET i == ExactMatch(faqEntries, tasks[t].question)
           m == Moved(t, AfterScan(i > 0), "scan")
       IN  tasks' = [tasks EXCEPT ![t] =
                 IF i > 0
                 THEN [m EXCEPT !.found = TRUE, !.answer = faqEntries[i].Answer]
                 ELSE m]
    /\ UNCHANGED <<faqTable, faqEntries, index, historyTable, history,
                   favorites, favSeq, favView, uiQueue, results, progress,
                   dialog, favUndo,
                   running, faqBleve, status, clock, runs, faqSeq,
                   searchHistory>>

\* relevance scores the index may report, around the threshold
Scores == {Threshold, Threshold + 1}

\* what index.Search may return with Size = 1: no hit or one top hit
SearchResults ==
    {<<>>} \cup { <<[ID |-> d.ID, Score |-> s]>> : d \in index, s \in Scores }

\* the comparison with >= for >
ConfidentAtThreshold(hits) == Len(hits) > 0 /\ hits[1].Score >= Threshold

\* len(searchResult.Hits) > 0 && searchResult.Hits[0].Score > 0.3
Confident(hits) == Len(hits) > 0 /\ hits[1].Score > Threshold

\* the loop over faqEntries for the hit's document id
RECURSIVE LookupFrom(_, _, _)
LookupFrom(entries, id, i) ==
    IF i > Len(entries) THEN ""
    ELSE IF FmtD(entries[i].ID) = id THEN entries[i].Answer
    ELSE LookupFrom(entries, id, i + 1)

HitAnswer(entries, id) == LookupFrom(entries, id, 1)

\* the task ends in fyne.Do(func() { progress.Hide(); dialog.ShowError })
Fail(t, event) ==
    [Moved(t, "done", event) EXCEPT !.failed = TRUE]

Search(t) ==
    /\ Step(t, "search")
    /\ \/ /\ tasks' = [tasks EXCEPT ![t] =
                    [Fail(t, "index") EXCEPT !.search.res = "error"]]
          /\ uiQueue' = Do(uiQueue, [kind |-> "error", task |-> t])
       \/ /\ tasks' = [tasks EXCEPT ![t] =
                    [Moved(t, "hung", "index") EXCEPT !.search.res = "hang"]]
          /\ UNCHANGED uiQueue
       \/ /\ \E hits \in SearchResults :
                tasks' = [tasks EXCEPT ![t] =
                    IF Confident(hits)
                    THEN [Moved(t, "save", "index") EXCEPT
                            !.search = [res |-> "ok", hits |-> hits],
                            !.answer = HitAnswer(faqEntries, hits[1].ID)]
                    ELSE [Moved(t, "generate", "index") EXCEPT
                            !.search = [res |-> "ok", hits |-> hits]]]
          /\ UNCHANGED uiQueue
    /\ UNCHANGED <<faqTable, faqEntries, index, historyTable, history,
                   favorites, favSeq, favView, results, progress, dialog,
                   favUndo, running, faqBleve, status, clock, runs, faqSeq,
                   searchHistory>>

\* texts the generation service may answer with
Responses == {"g"}

\* the error of generateAnswer dropped: the task goes on with what it has
GenOutcomeErrorDropped(t, out, resp) ==
    CASE out = "ok" ->
           [Moved(t, "save", "gen") EXCEPT
                !.gen = [res |-> "ok", text |-> resp], !.answer = resp]
      [] out = "error" ->
           [Moved(t, "save", "gen") EXCEPT !.gen.res = "error"]
      [] out = "hang" ->
           [Moved(t, "hung", "gen") EXCEPT !.gen.res = "hang"]

\* generateAnswer(question, ""): a response, an error, or no return
GenOutcome(t, out, resp) ==
    CASE out = "ok" ->
           [Moved(t, "save", "gen") EXCEPT
                !.gen = [res |-> "ok", text |-> resp], !.answer = resp]
      [] out = "error" ->
           [Fail(t, "gen") EXCEPT !.gen.res = "error"]
      [] out = "hang" ->
           [Moved(t, "hung", "gen") EXCEPT !.gen.res = "hang"]

\* generateAnswer called only when the status line says the service is there
GenerateWhenConnected(t) ==
    /\ Step(t, "generate")
    /\ \/ /\ status # "disconnected"
          /\ \E resp \in Responses :
                tasks' = [tasks EXCEPT ![t] = GenOutcome(t, "ok", resp)]
          /\ UNCHANGED uiQueue
       \/ /\ tasks' = [tasks EXCEPT ![t] = GenOutcome(t, "error", "")]
          /\ uiQueue' = Do(uiQueue, [kind |-> "error", task |-> t])
       \/ /\ tasks' = [tasks EXCEPT ![t] = GenOutcome(t, "hang", "")]
          /\ UNCHANGED uiQueue
    /\ UNCHANGED <<faqTable, faqEntries, index, historyTable, history,
                   favorites, favSeq, favView, results, progress, dialog,
                   favUndo, running, faqBleve, status, clock, runs, faqSeq,
                   searchHistory>>

Generate(t) ==
    /\ Step(t, "generate")
    /\ \/ /\ \E resp \in Responses :
                tasks' = [tasks EXCEPT ![t] = GenOutcome(t, "ok", resp)]
          /\ UNCHANGED uiQueue
       \/ /\ tasks' = [tasks EXCEPT ![t] = GenOutcome(t, "error", "")]
          /\ uiQueue' = Do(uiQueue, [kind |-> "error", task |-> t])
       \/ /\ tasks' = [tasks EXCEPT ![t] = GenOutcome(t, "hang", "")]
          /\ UNCHANGED uiQueue
    /\ UNCHANGED <<faqTable, faqEntries, index, historyTable, history,
                   favorites, favSeq, favView, results, progress, dialog,
                   favUndo, running, faqBleve, status, clock, runs, faqSeq,
                   searchHistory>>

\* the insert with the question trimmed as the scan trims it
InsertHistoryTrimmed(table, question, answer, now) ==
    Append(table, [id |-> Len(table) + 1, question |-> TrimSpace(question),
                   answer |-> answer, date |-> now])

\* INSERT INTO history (question, answer) VALUES (?, ?); date defaults to
\* CURRENT_TIMESTAMP
InsertHistory(table, question, answer, now) ==
    Append(table, [id |-> Len(table) + 1, question |-> question,
                   answer |-> answer, date |-> now])

\* saveToHistory with its error treated as the errors of the index and of
\* the generation client are: the task ends in the error dialog
SaveToHistoryAborting(t) ==
    /\ Step(t, "save")
    /\ \/ /\ historyTable' =
                InsertHistory(historyTable, tasks[t].question, tasks[t].answer,
                              clock)
          /\ tasks' = [tasks EXCEPT ![t] = Moved(t, "load", "save")]
          /\ UNCHANGED uiQueue
       \/ /\ UNCHANGED historyTable
          /\ tasks' = [tasks EXCEPT ![t] =
                    [Fail(t, "save") EXCEPT !.saveErr = TRUE]]
          /\ uiQueue' = Do(uiQueue, [kind |-> "error", task |-> t])
    /\ UNCHANGED <<faqTable, faqEntries, index, history, favorites, favSeq,
                   favView, results, progress, dialog, favUndo, running,
                   faqBleve, status, clock, runs, faqSeq,
                   searchHistory>>

\* saveToHistory; its error is logged and the task goes on
SaveToHistory(t) ==
    /\ Step(t, "save")
    /\ \/ /\ historyTable' =
                InsertHistory(historyTable, tasks[t].question, tasks[t].answer,
                              clock)
          /\ tasks' = [tasks EXCEPT ![t] = Moved(t, "load", "save")]
       \/ /\ UNCHANGED historyTable
          /\ tasks' = [tasks EXCEPT ![t] =
                    [Moved(t, "load", "save") EXCEPT !.saveErr = TRUE]]
    /\ UNCHANGED <<faqTable, faqEntries, index, history, favorites, favSeq,
                   favView, uiQueue, results, progress, dialog, favUndo,
                   running, faqBleve, status, clock, runs, faqSeq,
                   searchHistory>>

\* loadHistory(db) returns into the task; nil on an error
ReloadHistory(t) ==
    /\ Step(t, "load")
    /\ \/ \E rows \in LoadHistory(historyTable) :
             tasks' = [tasks EXCEPT ![t] =
                [Moved(t, "assign", "load") EXCEPT !.loaded = rows]]
       \/ tasks' = [tasks EXCEPT ![t] =
                [Moved(t, "assign", "load") EXCEPT
                    !.loaded = <<>>, !.loadErr = TRUE]]
    /\ UNCHANGED <<faqTable, faqEntries, index, historyTable, history,
                   favorites, favSeq, favView, uiQueue, results, progress,
                   dialog, favUndo,
                   running, faqBleve, status, clock, runs, faqSeq,
                   searchHistory>>

\* what lies behind the array of a slice whose length is not its own
BeyondArray == [id |-> 0, question |-> <<>>, answer |-> "", date |-> 0]

\* the slice two unsynchronized writes may leave: the array of one list with
\* the length of the other
Torn(array, other) ==
    [i \in 1..Len(other) |-> IF i <= Len(array) THEN array[i] ELSE BeyondArray]

\* history, err = ...: the write to main's variable, which no lock guards;
\* the writes of two tasks may overlap
AssignHistory(t) ==
    /\ Step(t, "assign")
    /\ \/ /\ history' = tasks[t].loaded
          /\ tasks' = [tasks EXCEPT ![t] = Moved(t, "refresh", "assign")]
       \/ \E u \in 1..Len(tasks) :
             /\ u # t
             /\ tasks[u].pc = "assign"
             /\ history' = Torn(tasks[t].loaded, tasks[u].loaded)
             /\ tasks' = [tasks EXCEPT
                            ![t] = Moved(t, "refresh", "assign"),
                            ![u] = Moved(u, "refresh", "assign")]
    /\ UNCHANGED <<faqTable, faqEntries, index, historyTable, favorites,
                   favSeq, favView, uiQueue, results, progress, dialog,
                   favUndo, running, faqBleve, status, clock, runs, faqSeq,
                   searchHistory>>

\* fyne.Do(func() { historyList.Refresh() })
QueueRefresh(t) ==
    /\ Step(t, "refresh")
    /\ uiQueue' = Do(uiQueue, [kind |-> "refresh", task |-> t])
    /\ tasks' = [tasks EXCEPT ![t] = Moved(t, "card", "refresh")]
    /\ UNCHANGED <<faqTable, faqEntries, index, historyTable, history,
                   favorites, favSeq, favView, results, progress, dialog,
                   favUndo, running, faqBleve, status, clock, runs, faqSeq,
                   searchHistory>>

\* the tasks that handed their card to the foreground thread, so far
Handed == { u \in 1..Len(tasks) : tasks[u].order > 0 }

\* the task saving its answer as a favorite when it hands over the card
QueueCardAsFavorite(t) ==
    /\ Step(t, "card")
    /\ uiQueue' = Do(uiQueue, [kind |-> "card", task |-> t])
    /\ tasks' = [tasks EXCEPT ![t] =
            [Moved(t, "done", "handed") EXCEPT
                !.order = Cardinality(Handed) + 1]]
    /\ favorites' = Append(favorites, [id |-> favSeq + 1,
                                       question |-> tasks[t].question,
                                       answer |-> tasks[t].answer,
                                       created_at |-> clock])
    /\ UNCHANGED <<faqTable, faqEntries, index, historyTable, history,
                   favSeq, favView, results, progress, dialog, favUndo,
                   running, faqBleve, status, clock, runs, faqSeq,
                   searchHistory>>

\* newResultCard(question, answer, ...) and fyne.Do(func() { Add(card) ... });
\* order observes the task's place among the tasks that completed
QueueCard(t) ==
    /\ Step(t, "card")
    /\ uiQueue' = Do(uiQueue, [kind |-> "card", task |-> t])
    /\ tasks' = [tasks EXCEPT ![t] =
            [Moved(t, "done", "handed") EXCEPT
                !.order = Cardinality(Handed) + 1]]
    /\ UNCHANGED <<faqTable, faqEntries, index, historyTable, history,
                   favorites, favSeq, favView, results, progress, dialog,
                   favUndo, running, faqBleve, status, clock, runs, faqSeq,
                   searchHistory>>

-----------------------------------------------------------------------------
(* The foreground thread *)

\* newResultCard(question, answer, ...) of task t
Card(t) ==
    [task |-> t, question |-> tasks[t].question, answer |-> tasks[t].answer]

\* the card put on top of the results
AddCardOnTop(cards, card) == <<card>> \o cards

\* resultsContainer.Add(card)
AddCard(cards, card) == Append(cards, card)

\* the foreground thread waits for the calls of the tasks to return
CanRunUIWhenNoCallHangs ==
    /\ uiQueue # <<>>
    /\ \A t \in 1..Len(tasks) : tasks[t].pc # "hung"

\* the foreground thread may run the next queued function
CanRunUI == uiQueue # <<>>

\* a foreground thread whose error function shows the dialog and leaves
\* the progress indicator as it is
RunUIErrorKeepsProgress ==
    /\ CanRunUI
    /\ uiQueue' = Tail(uiQueue)
    /\ LET f == Head(uiQueue) IN
       \/ /\ f.kind = "show"
          /\ progress' = TRUE
          /\ results' = <<>>
          /\ UNCHANGED <<tasks, dialog>>
       \/ /\ f.kind = "error"
          /\ UNCHANGED progress
          /\ dialog' = "error"
          /\ tasks' = [tasks EXCEPT ![f.task].trace = Append(@, "error")]
          /\ UNCHANGED results
       \/ /\ f.kind = "refresh"
          /\ UNCHANGED <<tasks, results, progress, dialog>>
       \/ /\ f.kind = "card"
          /\ results' = AddCard(results, Card(f.task))
          /\ progress' = FALSE
          /\ tasks' = [tasks EXCEPT ![f.task].trace = Append(@, "card")]
          /\ UNCHANGED dialog
    /\ UNCHANGED <<faqTable, faqEntries, index, historyTable, history,
                   favorites, favSeq, favView, favUndo,
                   running, faqBleve, status, clock, runs, faqSeq,
                   searchHistory>>

\* the foreground thread runs the function at the head of the queue
RunUI ==
    /\ CanRunUI
    /\ uiQueue' = Tail(uiQueue)
    /\ LET f == Head(uiQueue) IN
       \/ /\ f.kind = "show"
          /\ progress' = TRUE
          /\ results' = <<>>
          /\ UNCHANGED <<tasks, dialog>>
       \/ /\ f.kind = "error"
          /\ progress' = FALSE
          /\ dialog' = "error"
          /\ tasks' = [tasks EXCEPT ![f.task].trace = Append(@, "error")]
          /\ UNCHANGED results
       \/ /\ f.kind = "refresh"
          /\ UNCHANGED <<tasks, results, progress, dialog>>
       \/ /\ f.kind = "card"
          /\ results' = AddCard(results, Card(f.task))
          /\ progress' = FALSE
          /\ tasks' = [tasks EXCEPT ![f.task].trace = Append(@, "card")]
          /\ UNCHANGED dialog
    /\ UNCHANGED <<faqTable, faqEntries, index, historyTable, history,
                   favorites, favSeq, favView, favUndo,
                   running, faqBleve, status, clock, runs, faqSeq,
                   searchHistory>>

\* the insert into a table that keeps a pair once
InsertFavoriteUnique(table, seq, question, answer, now) ==
    IF \E i \in 1..Len(table) :
          table[i].question = question /\ table[i].answer = answer
    THEN table
    ELSE Append(table, [id |-> seq + 1, question |-> question,
                        answer |-> answer, created_at |-> now])

\* INSERT INTO favorites (question, answer) VALUES (?, ?); created_at
\* defaults to CURRENT_TIMESTAMP
InsertFavorite(table, seq, question, answer, now) ==
    Append(table, [id |-> seq + 1, question |-> question, answer |-> answer,
                   created_at |-> now])

\* a delete that removes one row, the oldest with the pair
DeleteFavoriteFirstRow(table, question, answer) ==
    LET same == { i \in 1..Len(table) :
                    table[i].question = question /\ table[i].answer = answer }
    IN  IF same = {} THEN table
        ELSE LET k == CHOOSE i \in same : \A j \in same : i <= j
             IN  SubSeq(table, 1, k - 1) \o SubSeq(table, k + 1, Len(table))

\* DELETE FROM favorites WHERE question = ? AND answer = ?
DeleteFavoriteRows(table, question, answer) ==
    SelectSeq(table, LAMBDA r : ~(r.question = question /\ r.answer = answer))

\* onSave of a result card
SaveFavorite(c) ==
    \/ /\ favSeq < MaxFavSeq
       /\ favorites' = InsertFavorite(favorites, favSeq, c.question, c.answer,
                                     clock)
       /\ favSeq' = favSeq + 1
       /\ dialog' = "favorite added"
       /\ favUndo' = [stage |-> "saved", question |-> c.question,
                      answer |-> c.answer, before |-> favorites]
       /\ UNCHANGED <<faqTable, faqEntries, index, historyTable, history,
                      favView, tasks, uiQueue, results, progress,
                      running, faqBleve, status, clock, runs, faqSeq,
                      searchHistory>>
    \/ /\ dialog' = "error"
       /\ UNCHANGED <<faqTable, faqEntries, index, historyTable, history,
                      favorites, favSeq, favView, tasks, uiQueue, results,
                      progress, favUndo,
                      running, faqBleve, status, clock, runs, faqSeq,
                      searchHistory>>

\* onDelete of a result card or of a card of the favorites tab
DeleteFavorite(c) ==
    \/ /\ favorites' = DeleteFavoriteRows(favorites, c.question, c.answer)
       \* the tab is rebuilt from the table; a failed query leaves it
       \* without cards
       /\ favView' \in LoadFavorites(favorites') \cup { <<>> }
       /\ dialog' = "favorite deleted"
       /\ favUndo' =
             IF /\ favUndo.stage = "saved"
                /\ favUndo.question = c.question
                /\ favUndo.answer = c.answer
             THEN [favUndo EXCEPT !.stage = "deleted"]
             ELSE NoUndo
       /\ UNCHANGED <<faqTable, faqEntries, index, historyTable, history,
                      favSeq, tasks, uiQueue, results, progress,
                      running, faqBleve, status, clock, runs, faqSeq,
                      searchHistory>>
    \/ /\ dialog' = "error"
       /\ UNCHANGED <<faqTable, faqEntries, index, historyTable, history,
                      favorites, favSeq, favView, tasks, uiQueue, results,
                      progress, favUndo,
                      running, faqBleve, status, clock, runs, faqSeq,
                      searchHistory>>

\* the cards on screen: the results and the favorites tab
ResultCards == { results[i] : i \in 1..Len(results) }
FavoriteCards == { favView[i] : i \in 1..Len(favView) }

-----------------------------------------------------------------------------
(* The status line *)

\* what the goroutine of main sets the status to when http.Get returns
ProbeResults == {"connected", "error", "disconnected"}

\* the probe of the generation service returns; until then the status
\* stays "checking"
Probe ==
    /\ running
    /\ status = "checking"
    /\ status' \in ProbeResults
    /\ UNCHANGED <<faqTable, faqEntries, index, historyTable, history,
                   favorites, favSeq, favView, tasks, uiQueue, results,
                   progress, dialog, favUndo, running, faqBleve, clock, runs, faqSeq,
                   searchHistory>>

-----------------------------------------------------------------------------
(* The management tab *)

\* what the user may type into the form and into the edit dialog
FormInputs ==
    { [question |-> <<>>,    answer |-> "a3"],
      [question |-> <<"x">>, answer |-> ""],
      [question |-> <<"x">>, answer |-> "a3"] }

\* INSERT INTO faq (question, answer) VALUES (?, ?); the table, which the
\* program does not make, is taken to hand out ids as its other tables do
InsertFaq(table, seq, question, answer) ==
    Append(table, [ID |-> seq + 1, Question |-> question, Answer |-> answer])

\* an update without its WHERE clause
UpdateFaqEveryRow(table, id, question, answer) ==
    [i \in 1..Len(table) |->
        [ID |-> table[i].ID, Question |-> question, Answer |-> answer]]

\* UPDATE faq SET question = ?, answer = ? WHERE id = ?
UpdateFaq(table, id, question, answer) ==
    [i \in 1..Len(table) |->
        IF table[i].ID = id
        THEN [ID |-> id, Question |-> question, Answer |-> answer]
        ELSE table[i]]

\* DELETE FROM faq WHERE id = ?
DeleteFaq(table, id) == SelectSeq(table, LAMBDA r : r.ID # id)

\* the add handler with the new row put into the index
AddFAQIndexed(question, answer) ==
    /\ running
    /\ question # <<>> /\ answer # ""
    /\ faqSeq < MaxFaqSeq
    /\ faqTable' = InsertFaq(faqTable, faqSeq, question, answer)
    /\ faqSeq' = faqSeq + 1
    /\ dialog' = "faq added"
    /\ index' = index \cup { [ID |-> FmtD(faqSeq + 1), Question |-> question,
                              Answer |-> answer] }
    /\ faqBleve' = [exists |-> TRUE, docs |-> index']
    /\ UNCHANGED <<faqEntries, historyTable, history, favorites, favSeq,
                   favView, tasks, uiQueue, results, progress, favUndo,
                   running, status, clock, runs,
                   searchHistory>>

\* the add button of the form
AddFAQ(question, answer) ==
    /\ running
    /\ \/ /\ question = <<>> \/ answer = ""
          /\ dialog' = "fill all fields"
          /\ UNCHANGED <<faqTable, faqSeq>>
       \/ /\ question # <<>> /\ answer # ""
          /\ faqSeq < MaxFaqSeq
          /\ faqTable' = InsertFaq(faqTable, faqSeq, question, answer)
          /\ faqSeq' = faqSeq + 1
          /\ dialog' = "faq added"
       \/ /\ question # <<>> /\ answer # ""
          /\ dialog' = "error"
          /\ UNCHANGED <<faqTable, faqSeq>>
    /\ UNCHANGED <<faqEntries, index, historyTable, history, favorites,
                   favSeq, favView, tasks, uiQueue, results, progress,
                   favUndo, running, faqBleve, status, clock, runs,
                   searchHistory>>

\* the delete handler with a reload of the list the resolver reads
DeleteFAQReloading(id) ==
    /\ running
    /\ faqTable' = DeleteFaq(faqTable, id)
    /\ faqEntries' = LoadFAQEntries(faqTable')
    /\ UNCHANGED <<index, historyTable, history, favorites, favSeq, favView,
                   tasks, uiQueue, results, progress, dialog, favUndo,
                   running, faqBleve, status, clock, runs, faqSeq,
                   searchHistory>>

\* the delete button of a card of the list, confirmed
DeleteFAQ(id) ==
    /\ running
    /\ \/ /\ faqTable' = DeleteFaq(faqTable, id)
          /\ UNCHANGED dialog
       \/ /\ dialog' = "error"
          /\ UNCHANGED faqTable
    /\ UNCHANGED <<faqEntries, index, historyTable, history, favorites,
                   favSeq, favView, tasks, uiQueue, results, progress,
                   favUndo, running, faqBleve, status, clock, runs, faqSeq,
                   searchHistory>>

\* what is in memory when the process is gone
Stopped ==
    /\ running' = FALSE
    /\ faqEntries' = <<>>
    /\ index' = {}
    /\ history' = <<>>
    /\ favView' = <<>>
    /\ tasks' = <<>>
    /\ uiQueue' = <<>>
    /\ results' = <<>>
    /\ progress' = FALSE
    /\ dialog' = "none"
    /\ favUndo' = NoUndo
    /\ status' = "checking"
    /\ searchHistory' = <<>>

\* the save handler with the favorites that hold an answer of the faq table
\* following the edit, as rows that refer to the entry would
EditFAQCascading(id, question, answer) ==
    /\ running
    /\ faqTable' = UpdateFaq(faqTable, id, question, answer)
    /\ favorites' =
          [i \in 1..Len(favorites) |->
              IF \E j \in 1..Len(faqTable) :
                    /\ faqTable[j].ID = id
                    /\ faqTable[j].Answer = favorites[i].answer
              THEN [favorites[i] EXCEPT !.answer = answer]
              ELSE favorites[i]]
    /\ Stopped
    /\ UNCHANGED <<historyTable, favSeq, faqBleve, clock, runs, faqSeq>>

\* the save button of the edit dialog of a card of the list: after the
\* update it closes w, the only window, so ShowAndRun and main return
EditFAQ(id, question, answer) ==
    /\ running
    /\ \/ /\ faqTable' = UpdateFaq(faqTable, id, question, answer)
          /\ Stopped
          /\ UNCHANGED <<historyTable, favorites, favSeq, faqBleve, clock,
                         runs, faqSeq>>
       \/ /\ dialog' = "error"
          /\ UNCHANGED <<faqTable, faqEntries, index, historyTable, history,
                         favorites, favSeq, favView, tasks, uiQueue, results,
                         progress, favUndo, running, faqBleve, status, clock, runs, faqSeq,
                         searchHistory>>

-----------------------------------------------------------------------------
(* The program ends and is started again *)

\* the user closes the window
Exit ==
    /\ running
    /\ Stopped
    /\ UNCHANGED <<faqTable, historyTable, favorites, favSeq, faqBleve, clock,
                   runs, faqSeq>>

\* the user removes the directory faq.bleve while the program is not running
RemoveIndex ==
    /\ ~running
    /\ faqBleve.exists
    /\ faqBleve' = NoIndex
    /\ UNCHANGED <<faqTable, faqEntries, index, historyTable, history,
                   favorites, favSeq, favView, tasks, uiQueue, results,
                   progress, dialog, favUndo, running, status, clock, runs, faqSeq,
                   searchHistory>>

\* main up to w.ShowAndRun(), again
Start ==
    /\ ~running
    /\ runs < MaxRuns
    /\ runs' = runs + 1
    /\ running' = TRUE
    /\ faqEntries' = LoadFAQEntries(faqTable)
    /\ index' = CreateBleveIndex(faqBleve, faqEntries')
    /\ faqBleve' = [exists |-> TRUE, docs |-> index']
    /\ history' \in LoadHistory(historyTable) \cup { <<>> }
    /\ favView' \in LoadFavorites(favorites) \cup { <<>> }
    /\ UNCHANGED <<faqTable, historyTable, favorites, favSeq, tasks, uiQueue,
                   results, progress, dialog, favUndo, status, clock, faqSeq,
                   searchHistory>>

\* a second passes; seconds in which no row is written are not told apart
Tick ==
    /\ clock <= LastStamp(historyTable, favorites)
    /\ clock' = clock + 1
    /\ UNCHANGED <<faqTable, faqEntries, index, historyTable, history,
                   favorites, favSeq, favView, tasks, uiQueue, results,
                   progress, dialog, favUndo, running, faqBleve, status,
                   runs, faqSeq,
                   searchHistory>>

-----------------------------------------------------------------------------
(* The variant that keeps the search history in memory: src/main.go, and
   the same lines in src/unnamed/part_000 *)

\* a history that takes the new question at its end
PushHistoryAtEnd(list, question) == Limit(Append(list, question), HistoryLimit)

\* searchHistory = append([]string{question}, searchHistory...), cut to
\* its first ten
PushHistory(list, question) == Limit(<<question>> \o list, HistoryLimit)

\* findAnswer of src/main.go, on the foreground thread
MainFindAnswer(q, max) ==
    /\ running
    /\ IF IsBlank(q)
       THEN /\ dialog' = "warning"
            /\ UNCHANGED <<tasks, uiQueue, searchHistory>>
       ELSE /\ Len(tasks) < max
            /\ searchHistory' = PushHistory(searchHistory, q)
            /\ uiQueue' = Do(uiQueue, [kind |-> "show", task |-> 0])
            /\ tasks' = Append(tasks, [question |-> q, pc |-> "search",
                                       answer |-> ""])
            /\ UNCHANGED dialog
    /\ UNCHANGED <<faqTable, faqEntries, index, historyTable, history,
                   favorites, favSeq, favView, results, progress, favUndo,
                   running, faqBleve, status, clock, runs, faqSeq>>

\* the task of src/main.go: index.Search, then by its hits
MainSearch(t) ==
    /\ Step(t, "search")
    /\ \/ /\ tasks' = [tasks EXCEPT ![t].pc = "done"]
          /\ uiQueue' = Do(uiQueue, [kind |-> "error", task |-> t])
       \/ /\ tasks' = [tasks EXCEPT ![t].pc = "generate"]
          /\ UNCHANGED uiQueue
       \/ /\ tasks' = [tasks EXCEPT ![t].pc = "done"]
          /\ uiQueue' = Do(uiQueue, [kind |-> "nothing", task |-> t])
    /\ UNCHANGED <<faqTable, faqEntries, index, historyTable, history,
                   favorites, favSeq, favView, results, progress, dialog,
                   favUndo, running, faqBleve, status, clock, runs, faqSeq,
                   searchHistory>>

\* the task of src/main.go: generateAnswer with the hits as context
MainGenerate(t) ==
    /\ Step(t, "generate")
    /\ \/ /\ tasks' = [tasks EXCEPT ![t].pc = "done"]
          /\ uiQueue' = Do(uiQueue, [kind |-> "error", task |-> t])
       \/ \E resp \in Responses :
             /\ tasks' = [tasks EXCEPT ![t].pc = "done", ![t].answer = resp]
             /\ uiQueue' = Do(uiQueue, [kind |-> "card", task |-> t])
    /\ UNCHANGED <<faqTable, faqEntries, index, historyTable, history,
                   favorites, favSeq, favView, results, progress, dialog,
                   favUndo, running, faqBleve, status, clock, runs, faqSeq,
                   searchHistory>>

\* the goroutine of task k returned and its last function ran: the task is
\* forgotten, and the functions still queued follow the tasks that remain
Forget(k) ==
    /\ tasks' = SubSeq(tasks, 1, k - 1) \o SubSeq(tasks, k + 1, Len(tasks))
    /\ uiQueue' = [i \in 1..(Len(uiQueue) - 1) |->
                     IF uiQueue[i + 1].task > k
                     THEN [uiQueue[i + 1] EXCEPT !.task = @ - 1]
                     ELSE uiQueue[i + 1]]

\* the foreground thread of src/main.go runs the function at the head of
\* the queue
MainRunUI ==
    /\ CanRunUI
    /\ LET f == Head(uiQueue) IN
       \/ /\ f.kind = "show"
          /\ uiQueue' = Tail(uiQueue)
          /\ progress' = TRUE
          /\ results' = <<>>
          /\ UNCHANGED <<tasks, dialog>>
       \/ /\ f.kind = "error"
          /\ Forget(f.task)
          /\ progress' = FALSE
          /\ dialog' = "error"
          /\ UNCHANGED results
       \/ /\ f.kind = "nothing"
          /\ Forget(f.task)
          /\ progress' = FALSE
          /\ dialog' = "nothing found"
          /\ UNCHANGED results
       \/ /\ f.kind = "card"
          /\ Forget(f.task)
          /\ results' = AddCard(results,
                                [question |-> tasks[f.task].question,
                                 answer |-> tasks[f.task].answer])
          /\ progress' = FALSE
          /\ UNCHANGED dialog
    /\ UNCHANGED <<faqTable, faqEntries, index, historyTable, history,
                   favorites, favSeq, favView, favUndo, running, faqBleve,
                   status, clock, runs, faqSeq, searchHistory>>

-----------------------------------------------------------------------------

TaskStep(t) ==
    \/ Scan(t)
    \/ Search(t)
    \/ Generate(t)
    \/ SaveToHistory(t)
    \/ ReloadHistory(t)
    \/ AssignHistory(t)
    \/ QueueRefresh(t)
    \/ QueueCard(t)

\* The search pipeline: the user submits questions, the tasks and the
\* foreground thread run.  No task reads or writes what the favorites
\* callbacks touch, so they are left to FavSpec.
Next ==
    \/ \E q \in QInputs : FindAnswer(q, MaxTasks)
    \/ \E t \in 1..MaxTasks : TaskStep(t)
    \/ RunUI

Spec == Init /\ [][Next]_vars

\* The pipeline and the favorites buttons of the cards on screen.
FavNext ==
    \/ \E q \in QInputs : FindAnswer(q, MaxTasks)
    \/ \E t \in 1..MaxTasks : TaskStep(t)
    \/ RunUI
    \/ \E c \in ResultCards : SaveFavorite(c)
    \/ \E c \in ResultCards \cup FavoriteCards : DeleteFavorite(c)

FavSpec == Init /\ [][FavNext]_vars

\* the questions that start a search
Questions == { q \in QInputs : \E i \in 1..Len(q) : q[i] \notin White }

\* Overlapping searches.
ConcNext ==
    \/ \E q \in Questions : FindAnswer(q, MaxOverlap)
    \/ \E t \in 1..MaxOverlap : TaskStep(t)
    \/ RunUI

ConcSpec == Init /\ [][ConcNext]_vars

\* the questions no entry of the faq table answers by an exact match: their
\* searches go on to the calls that may not return
Unmatched ==
    { q \in Questions :
        \A i \in 1..Len(FaqAtStart) :
            ~EqualFold(TrimSpace(FaqAtStart[i].Question), TrimSpace(q)) }

\* a start that finds no index on disk and builds it
FairInit == Startup({NoIndex}, {HistoryAtStart})

\* Overlapping searches that call the index.
FairNext ==
    \/ \E q \in Unmatched : FindAnswer(q, MaxOverlap)
    \/ \E t \in 1..MaxOverlap : TaskStep(t)
    \/ RunUI

\* Overlapping searches under fair scheduling: a goroutine that can take a
\* step takes it, and the foreground thread keeps running its queue.
FairSpec ==
    /\ FairInit /\ [][FairNext]_vars
    /\ \A t \in 1..MaxOverlap : WF_vars(TaskStep(t))
    /\ WF_vars(RunUI)

\* The status line: the pipeline while the probe of main is out or back.
ProbeNext ==
    \/ \E q \in QInputs : FindAnswer(q, MaxTasks)
    \/ \E t \in 1..MaxTasks : TaskStep(t)
    \/ RunUI
    \/ Probe

ProbeSpec == Init /\ [][ProbeNext]_vars

\* the ids of the cards of the list of the management tab, which every
\* handler of the tab rebuilds from the faq table
FaqIDs == { faqTable[i].ID : i \in 1..Len(faqTable) }

\* The management tab within one run of the program.
FaqNext ==
    \/ \E q \in QInputs : FindAnswer(q, MaxTasks)
    \/ \E t \in 1..MaxTasks : TaskStep(t)
    \/ RunUI
    \/ \E f \in FormInputs : AddFAQ(f.question, f.answer)
    \/ \E id \in FaqIDs, f \in FormInputs : EditFAQ(id, f.question, f.answer)
    \/ \E id \in FaqIDs : DeleteFAQ(id)

FaqSpec == Init /\ [][FaqNext]_vars

\* The three tables: the pipeline, the favorites buttons and the
\* management tab.
StoreNext ==
    \/ \E q \in Questions : FindAnswer(q, MaxTasks)
    \/ \E t \in 1..MaxTasks : TaskStep(t)
    \/ RunUI
    \/ \E c \in ResultCards : SaveFavorite(c)
    \/ \E c \in ResultCards \cup FavoriteCards : DeleteFavorite(c)
    \/ \E f \in FormInputs : AddFAQ(f.question, f.answer)
    \/ \E id \in FaqIDs, f \in FormInputs : EditFAQ(id, f.question, f.answer)
    \/ \E id \in FaqIDs : DeleteFAQ(id)

StoreSpec == Init /\ [][StoreNext]_vars

\* a history table a former run left: as many rows as the list shows, the
\* two oldest written in the same second
FullHistory ==
    [i \in 1..HistoryLimit |->
        [id |-> i, question |-> <<"x">>, answer |-> "old",
         date |-> IF i = 1 THEN 1 ELSE i - 1]]

HistInit == Startup({NoIndex}, {FullHistory})

\* The history: the pipeline, the favorites buttons and the management tab
\* over a history table that holds old rows, with time passing.
HistNext ==
    \/ StoreNext
    \/ Tick

HistSpec == HistInit /\ [][HistNext]_vars

\* Several runs of the program: the management tab changes the faq table
\* in the earlier runs, the program ends and is started again, and the last
\* run takes the searches.
RestartNext ==
    \/ \E q \in Questions : runs = MaxRuns /\ FindAnswer(q, MaxTasks)
    \/ \E t \in 1..MaxTasks : TaskStep(t)
    \/ RunUI
    \/ \E f \in FormInputs : runs < MaxRuns /\ AddFAQ(f.question, f.answer)
    \/ \E id \in FaqIDs, f \in FormInputs :
          runs < MaxRuns /\ EditFAQ(id, f.question, f.answer)
    \/ \E id \in FaqIDs : runs < MaxRuns /\ DeleteFAQ(id)
    \/ Exit
    \/ RemoveIndex
    \/ Start

RestartSpec == Init /\ [][RestartNext]_vars

\* The variant with the history in memory: submissions, its tasks and its
\* foreground thread.
MemInit == Startup({NoIndex}, {HistoryAtStart})

MemNext ==
    \/ \E q \in QInputs : MainFindAnswer(q, MaxTasks)
    \/ \E t \in 1..MaxTasks : MainSearch(t)
    \/ \E t \in 1..MaxTasks : MainGenerate(t)
    \/ MainRunUI

MemSpec == MemInit /\ [][MemNext]_vars

-----------------------------------------------------------------------------
(* What the claims speak of *)

Range(s) == { s[i] : i \in 1..Len(s) }

\* how often a task did `event`
Count(trace, event) == Cardinality({ i \in 1..Len(trace) : trace[i] = event })

\* the place of the first `event` in a trace, 0 if there is none
Pos(trace, event) ==
    IF event \in Range(trace)
    THEN CHOOSE i \in 1..Len(trace) :
            trace[i] = event /\ \A j \in 1..(i - 1) : trace[j] # event
    ELSE 0

Tasks == 1..Len(tasks)

\* the entries of the list in memory whose trimmed question equals the
\* trimmed q, ignoring case
Matching(q) ==
    { i \in 1..Len(faqEntries) :
        EqualFold(TrimSpace(faqEntries[i].Question), TrimSpace(q)) }

\* the task has its answer
Resolved(t) ==
    tasks[t].pc \in {"save", "load", "assign", "refresh", "card", "done"}
    /\ ~tasks[t].failed

\* the foreground thread has added the task's card to the results
Displayed(t) == "card" \in Range(tasks[t].trace)

\* C1: a question that matches a FAQ entry of the list in memory (trimmed,
\* ignoring case) resolves to the stored answer of the first such entry in
\* load order, and the task calls neither the index nor the generation
\* client.
C1_ExactMatch ==
    \A t \in Tasks :
        LET m == Matching(tasks[t].question) IN
        (m # {} /\ tasks[t].pc # "scan") =>
            /\ Resolved(t)
            /\ \E i \in m : /\ \A j \in m : i <= j
                             /\ tasks[t].answer = faqEntries[i].Answer
            /\ "index" \notin Range(tasks[t].trace)
            /\ "gen" \notin Range(tasks[t].trace)

\* a question that matches two entries was resolved and displayed
C1_Witness ==
    \E t \in Tasks :
        /\ Cardinality(Matching(tasks[t].question)) > 1
        /\ tasks[t].question # TrimSpace(tasks[t].question)
        /\ Displayed(t)

\* the index's top hit of the task scored above 0.3
HitAbove(t) ==
    /\ tasks[t].search.res = "ok"
    /\ Len(tasks[t].search.hits) > 0
    /\ tasks[t].search.hits[1].Score > Threshold

\* C2: with no exact match and a top hit scoring above 0.3, the answer is the
\* stored answer of the FAQ entry whose id, as a string, is the hit's
\* document id, and the generation client is not called; for every index
\* content, also one whose document ids are not all in the list in memory.
C2_IndexedMatch ==
    \A t \in Tasks :
        (Matching(tasks[t].question) = {} /\ HitAbove(t)) =>
            /\ Resolved(t)
            /\ \E i \in 1..Len(faqEntries) :
                  /\ FmtD(faqEntries[i].ID) = tasks[t].search.hits[1].ID
                  /\ tasks[t].answer = faqEntries[i].Answer
            /\ "gen" \notin Range(tasks[t].trace)

\* C3: with no exact match, when the index query succeeds with no hit or a
\* top score of at most 0.3, the task calls the generation client exactly
\* once, and the response of a call that succeeds is the answer.
C3_GenerativeFallback ==
    \A t \in Tasks :
        ( /\ Matching(tasks[t].question) = {}
          /\ tasks[t].search.res = "ok"
          /\ \/ tasks[t].search.hits = <<>>
             \/ tasks[t].search.hits[1].Score <= Threshold ) =>
            /\ Count(tasks[t].trace, "gen") =
                  (IF tasks[t].pc = "generate" THEN 0 ELSE 1)
            /\ tasks[t].pc # "generate" => tasks[t].gen.res # "none"
            /\ tasks[t].gen.res = "ok" =>
                  /\ Resolved(t)
                  /\ tasks[t].answer = tasks[t].gen.text

\* a hit scoring exactly 0.3 went to the generation client, whose response
\* was displayed
C3_Witness ==
    \E t \in Tasks :
        /\ tasks[t].search.hits # <<>>
        /\ tasks[t].search.hits[1].Score = Threshold
        /\ tasks[t].gen.res = "ok"
        /\ tasks[t].answer \in Responses
        /\ Displayed(t)

\* this step is task t's call of saveToHistory
SaveStepOf(t) == tasks[t].pc = "save" /\ tasks'[t].pc # "save"

\* this step adds one row to the history table, with t's question and answer
RowAdded(t) ==
    /\ Len(historyTable') = Len(historyTable) + 1
    /\ SubSeq(historyTable', 1, Len(historyTable)) = historyTable
    /\ historyTable'[Len(historyTable')].question = tasks[t].question
    /\ historyTable'[Len(historyTable')].answer = tasks[t].answer

\* a task that handed its card to the display called saveToHistory once, a
\* task that failed never did, and only that call changes the history table
OneSavePerResolution ==
    /\ \A t \in 1..Len(tasks') :
          /\ tasks'[t].order > 0 => Count(tasks'[t].trace, "save") = 1
          /\ tasks'[t].failed => Count(tasks'[t].trace, "save") = 0
    /\ historyTable' # historyTable => \E t \in Tasks : SaveStepOf(t)

\* C4 as claimed: every successful resolution adds exactly one history row
\* holding the resolved question and answer, whatever the provenance; a
\* failed resolution adds none.
C4_OneRowPerResolution ==
    [][ /\ OneSavePerResolution
        /\ \A t \in Tasks : SaveStepOf(t) => RowAdded(t) ]_vars

\* C4, amended: every successful resolution calls saveToHistory exactly once
\* with the resolved question and answer; the call adds exactly one row
\* holding them when the insert succeeds and none when it fails; a failed
\* resolution makes no such call and adds no row.
C4_OneInsertPerResolution ==
    [][ /\ OneSavePerResolution
        /\ \A t \in Tasks : SaveStepOf(t) =>
              IF tasks'[t].saveErr
              THEN historyTable' = historyTable
              ELSE RowAdded(t) ]_vars

\* a generated answer was displayed and is the one new row of the table
C4_Witness ==
    \E t \in Tasks :
        /\ Displayed(t)
        /\ tasks[t].gen.res = "ok"
        /\ ~tasks[t].saveErr
        /\ Len(historyTable) = Len(HistoryAtStart) + 1
        /\ historyTable[Len(historyTable)].question = tasks[t].question
        /\ historyTable[Len(historyTable)].answer = tasks[t].answer

\* C5: for every prior content of the favorites table, also one that holds
\* rows with the same question and answer, saving a card as favorite and
\* then deleting it leaves the table with the rows it had before the save.
C5_SaveDeleteRoundTrip ==
    favUndo.stage = "deleted" => favorites = favUndo.before

\* the error function of task t waits in the queue of the foreground thread
ErrorQueued(t) ==
    \E i \in 1..Len(uiQueue) :
        uiQueue[i].kind = "error" /\ uiQueue[i].task = t

\* C6: a resolution whose index query or generation call fails ends with the
\* error shown to the user and nothing else: no history row, no result card,
\* no second call of what failed, no other source for the answer.
C6_FailedResolution ==
    [][ /\ \A t \in 1..Len(tasks') :
              LET task == tasks'[t] IN
              /\ task.failed <=>
                    (task.search.res = "error" \/ task.gen.res = "error")
              /\ task.failed =>
                    /\ task.pc = "done"
                    /\ task.answer = ""
                    /\ Count(task.trace, "index") = 1
                    /\ Count(task.trace, "gen") =
                          (IF task.gen.res = "error" THEN 1 ELSE 0)
                    /\ Range(task.trace) \subseteq
                          {"scan", "index", "gen", "error"}
                    /\ Count(task.trace, "error") =
                          (IF ErrorQueued(t)' THEN 0 ELSE 1)
        /\ \A t \in Tasks :
              (tasks'[t].failed /\ tasks'[t] # tasks[t]) =>
                  /\ UNCHANGED <<historyTable, history, results>>
                  /\ ~tasks[t].failed => ~ErrorQueued(t) /\ ErrorQueued(t)'
                  /\ tasks[t].failed =>
                        /\ dialog' = "error"
                        /\ progress' = FALSE ]_vars

\* the generation call of a task failed and its error was shown
C6_Witness ==
    \E t \in Tasks :
        /\ tasks[t].gen.res = "error"
        /\ tasks[t].failed
        /\ "error" \in Range(tasks[t].trace)
        /\ dialog = "error"

\* event a comes before event b in the trace
Before(trace, a, b) == 0 < Pos(trace, a) /\ Pos(trace, a) < Pos(trace, b)

\* C7: within a resolution the scan runs first, the index is queried only
\* when the scan found no exact match, the generation client is called only
\* when the index query succeeded without a hit above 0.3, and the history
\* write comes after the answer is determined and before the result is
\* handed to the display.
C7_PriorityOrder ==
    \A t \in Tasks :
        LET task == tasks[t]
            tr == task.trace
            did(e) == e \in Range(tr)
        IN  /\ tr # <<>> => tr[1] = "scan"
            /\ \A e \in {"scan", "index", "gen", "save", "handed", "card"} :
                  Count(tr, e) <= 1
            /\ did("index") =>
                  /\ Matching(task.question) = {}
                  /\ Before(tr, "scan", "index")
            /\ did("gen") =>
                  /\ Before(tr, "index", "gen")
                  /\ task.search.res = "ok"
                  /\ ~HitAbove(t)
            /\ did("save") =>
                  /\ \/ Matching(task.question) # {}
                     \/ HitAbove(t)
                     \/ task.gen.res = "ok"
                  /\ \A e \in {"scan", "index", "gen"} :
                        did(e) => Before(tr, e, "save")
            /\ did("handed") => Before(tr, "save", "handed")
            /\ did("card") => Before(tr, "handed", "card")

\* a task went through every stage: scan, index, generation, history
\* write, display
C7_Witness ==
    \E t \in Tasks :
        {"scan", "index", "gen", "save", "handed", "card"}
            \subseteq Range(tasks[t].trace)

\* every character of q is white space
AllWhite(q) == \A i \in 1..Len(q) : q[i] \in White

\* C8: submitting an empty or white-space-only question starts no
\* resolution: no task is spawned, nothing is queued for the display, the
\* results, the history and the progress bar stay as they are.
C8_BlankQuestion ==
    [][ \A q \in QInputs :
          (AllWhite(q) /\ FindAnswer(q, MaxTasks)) =>
              UNCHANGED <<tasks, uiQueue, results, progress, historyTable,
                          history, favorites, index, faqTable>> ]_vars

\* a white-space-only question was submitted while a result was on display
C8_Witness ==
    /\ dialog = "warning"
    /\ results # <<>>

\* the card function of task t waits in the queue of the foreground thread
CardQueued(t) ==
    \E i \in 1..Len(uiQueue) :
        uiQueue[i].kind = "card" /\ uiQueue[i].task = t

\* task t is in flight: spawned, and neither returned nor stuck in a call
InFlight(t) == tasks[t].pc \notin {"done", "hung"}

\* C9: searches overlap, and a later submission neither cancels nor blocks
\* an earlier one: every task that resolves appends exactly one card, for its
\* own question and answer, and the cards on display are in the order in
\* which their tasks completed, which need not be the order of submission.
C9_CompletionOrder ==
    /\ \A i, j \in 1..Len(results) :
          i < j => tasks[results[i].task].order < tasks[results[j].task].order
    /\ \A i \in 1..Len(results) :
          /\ results[i].question = tasks[results[i].task].question
          /\ results[i].answer = tasks[results[i].task].answer
    /\ \A t \in Tasks :
          /\ tasks[t].order > 0 <=> (Resolved(t) /\ tasks[t].pc = "done")
          /\ Count(tasks[t].trace, "card") =
                (IF tasks[t].order > 0 /\ ~CardQueued(t) THEN 1 ELSE 0)
          /\ InFlight(t) => ENABLED TaskStep(t)
    /\ Len(tasks) < MaxOverlap =>
          \A q \in Questions : ENABLED FindAnswer(q, MaxOverlap)

\* two cards on display, the card of the search submitted second first
C9_Witness ==
    /\ Len(results) = 2
    /\ results[1].task = 2
    /\ results[2].task = 1

\* the search of task t is over as far as the user sees: its card is on
\* display or its error was shown
Finished(t) ==
    "card" \in Range(tasks[t].trace) \/ "error" \in Range(tasks[t].trace)

\* C10: a call that never returns stalls only its own task: under fair
\* scheduling every other search submitted, before or after, has its card
\* displayed or its error shown, and the foreground thread keeps taking
\* submissions.
C10_HangStallsOnlyItsTask ==
    /\ \A t \in 1..MaxOverlap :
          (t \in Tasks) ~> (t \in Tasks /\ (tasks[t].pc = "hung" \/ Finished(t)))
    /\ [](Len(tasks) < MaxOverlap =>
            \A q \in Questions : ENABLED FindAnswer(q, MaxOverlap))

\* the first search hangs in its generation call, the second, submitted
\* later, has its card on display
C10_Witness ==
    /\ Len(tasks) = 2
    /\ tasks[1].pc = "hung"
    /\ tasks[1].gen.res = "hang"
    /\ Displayed(2)
    /\ results # <<>>

\* C11: while the program runs, the list the resolver reads is the list
\* loaded from the faq table at startup, whatever the searches and the
\* management tab did since, and an exact match answers from that list even
\* when the table no longer holds the row.
C11_StartupSnapshot ==
    running =>
        /\ faqEntries = LoadFAQEntries(FaqAtStart)
        /\ \A t \in Tasks :
              tasks[t].found =>
                  \E i \in 1..Len(FaqAtStart) :
                      /\ EqualFold(TrimSpace(FaqAtStart[i].Question),
                                   TrimSpace(tasks[t].question))
                      /\ tasks[t].answer = FaqAtStart[i].Answer

\* every row of the faq table was deleted and a row was added, and a search
\* was answered from an entry loaded at startup
C11_Witness ==
    /\ running
    /\ Len(faqTable) = 1
    /\ faqTable[1].ID > faqEntries[Len(faqEntries)].ID
    /\ \E t \in Tasks :
          /\ tasks[t].found
          /\ Displayed(t)
          /\ \A i \in 1..Len(faqTable) : faqTable[i].Answer # tasks[t].answer

\* the number a string of decimal digits stands for, -1 if it is none
RECURSIVE Atoi(_)
Atoi(str) ==
    IF str = <<>> \/ \E i \in 1..Len(str) : str[i] \notin Range(Digits)
    THEN -1
    ELSE LET d == CHOOSE k \in 0..9 : Digits[k + 1] = str[Len(str)]
         IN  IF Len(str) = 1 THEN d
             ELSE 10 * Atoi(SubSeq(str, 1, Len(str) - 1)) + d

\* this step starts the program
Starts == ~running /\ running'

\* idx holds one document per entry, with the entry's question and answer,
\* under the entry's id written in decimal
OneDocPerEntry(idx, entries) ==
    /\ Cardinality(idx) = Len(entries)
    /\ \A i \in 1..Len(entries) :
          \E d \in idx :
              /\ Atoi(d.ID) = entries[i].ID
              /\ d.ID[1] # "0"
              /\ d.Question = entries[i].Question
              /\ d.Answer = entries[i].Answer

\* C12: when the program starts and there is no faq.bleve, the index it
\* makes holds one document per loaded FAQ entry, keyed by the entry's id
\* written in decimal; when there is a faq.bleve, the index is the one on
\* disk with its documents as they were, whatever the FAQ entries are now.
C12_CreateOrOpen ==
    /\ [](running /\ runs = 1 =>
            \/ index = StaleIndex.docs
            \/ OneDocPerEntry(index, faqEntries))
    /\ [][ Starts =>
              /\ faqBleve' = [exists |-> TRUE, docs |-> index']
              /\ IF faqBleve.exists
                 THEN index' = faqBleve.docs
                 ELSE OneDocPerEntry(index', faqEntries') ]_vars

\* the second run made its index anew, from a faq table that holds a row
\* added in the first run and lacks a row it held then
C12_Witness ==
    /\ running
    /\ runs = 2
    /\ \E d \in index : d.ID = <<"1", "3">>
    /\ OneDocPerEntry(index, faqEntries)
    /\ \A d \in index : Atoi(d.ID) # 1

\* C13: a step that changes the faq table leaves the index as it is, in
\* memory and on disk; faq.bleve changes only when it is removed from
\* outside or when a start finds none; so every run that finds a faq.bleve
\* searches the documents written when it was made, and every hit of a search
\* is one of them.
C13_IndexNotRefreshed ==
    /\ [](running =>
            /\ index = faqBleve.docs
            /\ \A t \in Tasks :
                  tasks[t].search.hits # <<>> =>
                      \E d \in index : d.ID = tasks[t].search.hits[1].ID)
    /\ [][ /\ faqTable' # faqTable => faqBleve' = faqBleve
           /\ (faqTable' # faqTable /\ running') => index' = index
           /\ faqBleve' # faqBleve =>
                 /\ ~running
                 /\ \/ faqBleve.exists /\ ~faqBleve'.exists /\ ~running'
                    \/ ~faqBleve.exists /\ faqBleve'.exists /\ running' ]_vars

\* in the second run, over the index the first run made, a search hit the
\* document of an entry the faq table no longer holds
C13_Witness ==
    /\ running
    /\ runs = 2
    /\ OneDocPerEntry(index, FaqAtStart)
    /\ \E t \in Tasks :
          /\ HitAbove(t)
          /\ Displayed(t)
          /\ \A i \in 1..Len(faqTable) :
                FmtD(faqTable[i].ID) # tasks[t].search.hits[1].ID

\* C14: a resolution whose history write fails is not aborted: the task is
\* not failed, no error dialog is queued or shown for it, it can take its
\* next step until it has handed its card to the foreground thread, and the
\* step that shows the card appends it to the results and hides the
\* progress bar.
C14_HistoryFailureNotFatal ==
    /\ [](\A t \in Tasks :
            tasks[t].saveErr =>
                /\ ~tasks[t].failed
                /\ Resolved(t)
                /\ ~ErrorQueued(t)
                /\ "error" \notin Range(tasks[t].trace)
                /\ tasks[t].pc # "done" => ENABLED TaskStep(t)
                /\ tasks[t].pc = "done" =>
                      /\ tasks[t].order > 0
                      /\ CardQueued(t) \/ Displayed(t)
                      /\ CardQueued(t) => ENABLED RunUI)
    /\ [][ \A t \in Tasks :
              (tasks[t].saveErr /\ ~Displayed(t) /\ Displayed(t)') =>
                  /\ results' = Append(results, Card(t))
                  /\ progress' = FALSE ]_vars

\* the history write of a search failed, no row was written, and the card
\* with its answer is on display with the progress bar hidden
C14_Witness ==
    \E t \in Tasks :
        /\ tasks[t].saveErr
        /\ historyTable = HistoryAtStart
        /\ Displayed(t)
        /\ results = <<Card(t)>>
        /\ ~progress

\* what a step of a task may be seen to do: where the task goes, with which
\* answer, failed or not, after which outcome of the generation client, and
\* with how many history rows
Outcomes ==
    [pc : {"search", "generate", "save", "load", "assign", "refresh", "card",
           "done", "hung"},
     answer : {"", "a1", "a2", "old"} \cup Responses,
     failed : BOOLEAN,
     gen : {"none", "ok", "error", "hang"},
     rows : 0..MaxTasks]

\* task t takes a step with outcome o
StepWith(t, o) ==
    /\ TaskStep(t)
    /\ tasks'[t].pc = o.pc
    /\ tasks'[t].answer = o.answer
    /\ tasks'[t].failed = o.failed
    /\ tasks'[t].gen.res = o.gen
    /\ Len(historyTable') = o.rows

\* this step is the probe coming back: the status changes and nothing else
ProbeReturns ==
    /\ status' # status
    /\ UNCHANGED <<faqTable, faqEntries, index, historyTable, history,
                   favorites, favSeq, favView, tasks, uiQueue, results,
                   progress, dialog, favUndo, running, faqBleve, clock, runs,
                   faqSeq>>

\* C15: the result of the probe does not reach the resolution: no step of a
\* search changes the status, and two states that differ only in the status
\* allow the same submissions, the same steps of every task with the same
\* answers, generation calls and history writes, and the same step of the
\* foreground thread.
C15_ProbeNotConsulted ==
    [][ /\ ProbeReturns =>
              /\ \A t \in 1..MaxTasks : \A o \in Outcomes :
                    ENABLED StepWith(t, o) <=> (ENABLED StepWith(t, o))'
              /\ \A q \in QInputs :
                    ENABLED FindAnswer(q, MaxTasks)
                        <=> (ENABLED FindAnswer(q, MaxTasks))'
              /\ ENABLED RunUI <=> (ENABLED RunUI)'
        /\ status' # status => ProbeReturns ]_vars

\* the probe found the service unreachable, and a search was answered by
\* the generation client
C15_Witness ==
    /\ status = "disconnected"
    /\ \E t \in Tasks :
          /\ tasks[t].gen.res = "ok"
          /\ tasks[t].answer \in Responses
          /\ Len(historyTable) = Len(HistoryAtStart) + 1
          /\ Displayed(t)

\* list holds the newest rows of table, at most HistoryLimit of them, each
\* once, none before a row of a later date
NewestFirst(list, table) ==
    /\ Len(list) = (IF Len(table) > HistoryLimit THEN HistoryLimit
                                                ELSE Len(table))
    /\ \A i \in 1..Len(list) : list[i] \in Range(table)
    /\ \A i, j \in 1..Len(list) :
          i < j => list[i].id # list[j].id /\ list[i].date >= list[j].date
    /\ \A r \in Range(table) \ Range(list) :
          \A i \in 1..Len(list) : r.date <= list[i].date

\* this step is task t's call of loadHistory
LoadStepOf(t) ==
    /\ tasks[t].pc = "load"
    /\ t \in 1..Len(tasks')
    /\ tasks'[t].pc # "load"

\* C16: no step deletes or changes a row of the history table: the table
\* only grows at its end, also beyond ten rows; what loadHistory reads back,
\* at startup and in a task, is empty (the read failed) or the newest rows by
\* date, at most ten, newest first.
C16_AppendOnlyHistory ==
    /\ [](tasks = <<>> /\ running =>
            history = <<>> \/ NewestFirst(history, historyTable))
    /\ [][ /\ Len(historyTable') >= Len(historyTable)
           /\ SubSeq(historyTable', 1, Len(historyTable)) = historyTable
           /\ \A t \in Tasks :
                 LoadStepOf(t) =>
                     \/ tasks'[t].loaded = <<>>
                     \/ NewestFirst(tasks'[t].loaded, historyTable) ]_vars

\* the table holds eleven rows, the two newest written in the same second,
\* and the history tab shows ten, the row of the search first
C16_Witness ==
    /\ Len(historyTable) = HistoryLimit + 1
    /\ historyTable[HistoryLimit + 1].date = historyTable[HistoryLimit].date
    /\ Len(history) = HistoryLimit
    /\ history[1] = historyTable[HistoryLimit + 1]
    /\ \E t \in Tasks : Displayed(t)

\* this step belongs to a search: a submission, a step of a task, or the
\* foreground thread running what a task queued
SearchStep ==
    \/ \E q \in QInputs : FindAnswer(q, MaxTasks)
    \/ \E t \in 1..MaxTasks : TaskStep(t)
    \/ RunUI

\* C17: a search, whether it resolves or fails, writes nothing but the
\* history: none of its steps changes the faq table, the favorites table or
\* the index, in memory or on disk.
C17_OnlyHistoryWritten ==
    [][ SearchStep =>
          UNCHANGED <<faqTable, faqSeq, favorites, favSeq, index, faqBleve>>
      ]_vars

\* a search was resolved, written to the history and displayed over a faq
\* table with a row of the management tab and a favorites table with a row
C17_Witness ==
    /\ \E t \in Tasks :
          /\ Displayed(t)
          /\ Len(historyTable) = Len(HistoryAtStart) + 1
    /\ favorites # <<>>
    /\ \E i \in 1..Len(faqTable) :
          faqTable[i].ID > FaqAtStart[Len(FaqAtStart)].ID

\* C18: the rows of history and favorites hold their text by value: a step
\* that changes the faq table, an edit or a delete among them, leaves every
\* row of the history and of the favorites as it is, and a step that writes
\* the history or deletes a favorite leaves the faq table as it is.
C18_RowsByValue ==
    [][ /\ faqTable' # faqTable => UNCHANGED <<historyTable, favorites>>
        /\ (historyTable' # historyTable \/ favorites' # favorites) =>
              UNCHANGED <<faqTable, faqSeq>> ]_vars

\* a history row and a favorites row hold the answer an entry had at
\* startup, and the faq table holds that entry with another answer
C18_Witness ==
    \E h \in Range(historyTable), f \in Range(favorites) :
        \E i \in 1..Len(faqTable), j \in 1..Len(FaqAtStart) :
            /\ faqTable[i].ID = FaqAtStart[j].ID
            /\ h.answer = FaqAtStart[j].Answer
            /\ f.answer = FaqAtStart[j].Answer
            /\ faqTable[i].Answer # FaqAtStart[j].Answer

\* this step is a save of card c that the database accepted
SavedStep(c) == SaveFavorite(c) /\ dialog' = "favorite added"

\* C19: the favorites table keeps no pair unique: a save can succeed
\* whatever the table holds, and every save that succeeds adds exactly one
\* row, with the pair of the card, to the rows that were there, also when
\* rows with that pair are among them.
C19_NoUniqueness ==
    /\ [](\A c \in ResultCards :
            favSeq < MaxFavSeq => ENABLED SavedStep(c))
    /\ [][ \A c \in ResultCards :
              SavedStep(c) =>
                  /\ Len(favorites') = Len(favorites) + 1
                  /\ SubSeq(favorites', 1, Len(favorites)) = favorites
                  /\ favorites'[Len(favorites')].question = c.question
                  /\ favorites'[Len(favorites')].answer = c.answer ]_vars

\* the same card was saved twice and the table holds two rows with its pair
C19_Witness ==
    /\ Len(favorites) = 2
    /\ favorites[1].question = favorites[2].question
    /\ favorites[1].answer = favorites[2].answer
    /\ favorites[1].id # favorites[2].id
    /\ dialog = "favorite added"

\* every search submitted is over: its task returned and the foreground
\* thread ran what it queued
AllCompleted ==
    /\ tasks # <<>>
    /\ \A t \in Tasks : tasks[t].pc = "done"
    /\ uiQueue = <<>>

\* C20: once every search in flight has completed, none of them with a
\* failed read of the history, the list of the history tab is the newest
\* rows of the history table, at most ten, newest first, however the
\* writes, the reads and the assignments of overlapping tasks interleave.
C20_HistoryListCurrent ==
    (AllCompleted /\ \A t \in Tasks : ~tasks[t].loadErr) =>
        NewestFirst(history, historyTable)

\* this step is a delete from card c that the database accepted
DeletedStep(c) == DeleteFavorite(c) /\ dialog' = "favorite deleted"

\* the positions of the favorites rows that hold the pair of card c
SamePair(c) ==
    { i \in 1..Len(favorites) :
        favorites[i].question = c.question /\ favorites[i].answer = c.answer }

Idle ==
    /\ running
    /\ \A t \in Tasks : tasks[t].pc = "done"
    /\ uiQueue = <<>>

\* C22: every way a search task ends (index error, generation error,
\* success) hides the progress indicator: whenever no search task is in
\* flight and every queued display update has run, the indicator is
\* hidden.
C22_ProgressHiddenWhenIdle == Idle => ~progress

\* two searches are over, one failed and showed its error, the other
\* displayed its card, and nothing is left in the queue
C22_Witness ==
    /\ Idle
    /\ ~progress
    /\ \E t \in Tasks, u \in Tasks :
          /\ tasks[t].failed
          /\ "error" \in Range(tasks[t].trace)
          /\ Displayed(u)

\* the foreground thread ran the progress.Show of every submission
ShowsRan == \A i \in 1..Len(uiQueue) : uiQueue[i].kind # "show"

\* C23: the progress indicator is visible in every state where a search
\* task is still in flight and the Show of every submission has run,
\* however overlapping searches interleave: a task that finishes does not
\* hide the indicator while another task is still running.
C23_ProgressWhileInFlight ==
    (ShowsRan /\ \E t \in Tasks : tasks[t].pc # "done") => progress

FirstOf(list, n) == [i \in 1..(IF Len(list) < n THEN Len(list) ELSE n) |->
                        list[i]]

\* C25 as stated: every submission of a question that is not empty puts it
\* on top of the history kept in memory, ahead of the questions that were
\* there, of which the list keeps the newest nine.
C25_NonEmptyRecorded ==
    [][ \A q \in QInputs :
          (q # <<>> /\ MainFindAnswer(q, MaxTasks)) =>
              searchHistory' =
                  FirstOf(<<q>> \o searchHistory, HistoryLimit) ]_vars

\* C25: the history kept in memory never holds more than ten questions;
\* every submission of a question that is not blank puts it on top, ahead
\* of the questions that were there, of which the list keeps the newest
\* nine, and it does so at the submission, while the search of that
\* question is still to run; a blank submission and every step of a
\* search, failing or finding nothing or not, leave the list as it is.
C25_NonBlankRecorded ==
    /\ [](Len(searchHistory) <= HistoryLimit)
    /\ [][ /\ \A q \in QInputs :
                MainFindAnswer(q, MaxTasks) =>
                    IF AllWhite(q)
                    THEN searchHistory' = searchHistory
                    ELSE /\ searchHistory' =
                               FirstOf(<<q>> \o searchHistory, HistoryLimit)
                         /\ tasks'[Len(tasks')].question = q
                         /\ tasks'[Len(tasks')].pc = "search"
           /\ searchHistory' # searchHistory =>
                \E q \in QInputs : MainFindAnswer(q, MaxTasks) ]_vars

\* the list is full, its newest and its oldest question differ, a search
\* before found nothing or failed, and the search of the newest question
\* has not run yet
C25_Witness ==
    /\ Len(searchHistory) = HistoryLimit
    /\ searchHistory[1] # searchHistory[HistoryLimit]
    /\ dialog \in {"error", "nothing found"}
    /\ \E t \in Tasks :
          /\ tasks[t].pc = "search"
          /\ tasks[t].question = searchHistory[1]

====
